---------------------------- MODULE Spec2Model ----------------------------
(***************************************************************************)
(* A model of ragbook (Fusion-RAG): chunk packing (chunking.py), the       *)
(* persisted index and its reload (index.py), hybrid retrieval             *)
(* (retrieve.py) and the embedding cache (embeddings.py).                  *)
(*                                                                         *)
(* Each component has a specification of its own (SpecChunk, SpecIndex,    *)
(* SpecRetrieve, SpecCache).  All of them share the variables below; a     *)
(* specification leaves the variables of the other components at their     *)
(* idle values.                                                            *)
(*                                                                         *)
(* Strings are modelled by what the code reads of them: a text is a record *)
(* with its length and an identity, a chunk text is the sequence of the    *)
(* unit texts that "\n\n".join glues together.  Floating-point scores are  *)
(* exact rationals (numerator, denominator); rounding is outside the model.*)
(***************************************************************************)
EXTENDS Integers, Sequences, FiniteSets, TLC

VARIABLES
    \* ---- build_chunks (chunking.py) ----
    units,              \* the list _collect_units returned
    target_max_tokens,  \* parameter of build_chunks
    overlap_tokens,     \* parameter of build_chunks
    upos,               \* position of the `for unit in units` loop (next index)
    current,            \* the buffer
    current_tokens,     \* its running token sum
    chunks,             \* the chunks emitted so far
    next_chunk_num,
    just_flushed,
    cpc,                \* "idle" | "loop" | "done"
    flushed,            \* history: the buffer handed to flush_chunk by the last max-token flush
    lastStep,           \* history: "none" | "add" | "flush" | "final" | "skip" | "empty"
    \* ---- EmbeddingCache (embeddings.py) ----
    db,                 \* the shelve file emb_cache.db: key -> stored vector
    ccalls,             \* history: number of get_many calls made
    lastCall,           \* history: the latest get_many call, its inputs and its outcome
    encodedBefore,      \* history: the (model, text) pairs encoded by calls before the latest
    firstStored,        \* history: key -> the vector stored under it the first time
    \* ---- build_and_persist_index / load_index (index.py) ----
    dir,                \* the four artifacts of out_dir
    bpc,                \* position of the build
    pdf_paths,          \* its input
    all_chunks,         \* its renumbered chunk list
    embeddings,         \* its embedding matrix (rows)
    lpc,                \* position of load_index
    loadWork,           \* history: what load_index has read or constructed so far
    loadDir0,           \* history: the directory when load_index was called
    loaded,             \* what load_index returned or raised
    \* ---- hybrid_retrieve (retrieve.py) ----
    n_docs,             \* len(index.chunks)
    dense_raw,          \* inner product of the query with each row of the dense index
    sparse_raw,         \* what bm25.get_scores returns for the query, per chunk
    top_k,
    dense_weight,
    sparse_weight,
    rpc,                \* "ready" | "done"
    scored,             \* per chunk: dense_norm, sparse_norm, hybrid
    results,            \* the list returned
    rcalls,             \* history: the collaborators hybrid_retrieve called
    \* ---- build_answer_prompt (prompt.py) ----
    retrieved,          \* its input list: per chunk, the lengths of header and cleaned text
    max_context_chars,  \* what _max_context_chars() returned
    remaining_chars,
    pi,                 \* the loop index i (1-based)
    context_blocks,     \* the blocks emitted so far
    ppc,                \* "off" | "loop" | "done"
    plog,               \* history: what the loop did with each chunk it reached
    \* ---- OllamaClient (llm_ollama.py) ----
    model_override,     \* the argument of create: None, "" or a name
    env_model,          \* OLLAMA_MODEL: None (unset), "" or a name
    cli_models,         \* what _list_models_from_cli returns
    api_models,         \* what _list_models_from_api returns
    self_model,         \* self.model
    opc,                \* "off" | "new" | "created" | "create_raised" | "responded"
                        \* | "retried" | "returned" | "raised"
    resp,               \* the response in hand
    gen_result,         \* what generate returned or raised
    requests,           \* history: the generation requests sent, with their responses
    \* ---- run_eval (eval.py) ----
    eval_lines,         \* the lines of eval_jsonl
    line_no,            \* the line the loop is at (1-based)
    rows,
    out_csv,            \* the rows written to out_csv, or None while there is no file
    epc,                \* "off" | "loop" | "written" | "raised"
    gen_log,            \* history: per question reached, whether llm.generate raised
    \* ---- _collect_units (chunking.py) ----
    pages,              \* the PageText list: per page, its lines
    pgi,                \* the page the outer loop is at (index into pages)
    li,                 \* the line index i (1-based: the next line to look at)
    collected,          \* the list `units` being built
    current_section,    \* <<>> for None, <<line>> for a heading line
    upc                 \* "off" | "loop" | "done"

chunkVars == <<units, target_max_tokens, overlap_tokens, upos, current, current_tokens,
               chunks, next_chunk_num, just_flushed, cpc, flushed, lastStep>>

cacheHist == <<ccalls, lastCall, encodedBefore, firstStored>>

cacheVars == <<db, cacheHist>>

indexVars == <<dir, bpc, pdf_paths, all_chunks, embeddings, lpc, loadWork, loadDir0, loaded>>

retrVars == <<n_docs, dense_raw, sparse_raw, top_k, dense_weight, sparse_weight, rpc,
              scored, results, rcalls>>

promptVars == <<retrieved, max_context_chars, remaining_chars, pi, context_blocks, ppc, plog>>

ollamaVars == <<model_override, env_model, cli_models, api_models, self_model, opc, resp,
                gen_result, requests>>

evalVars == <<eval_lines, line_no, rows, out_csv, epc, gen_log>>

unitVars == <<pages, pgi, li, collected, current_section, upc>>

askVars == <<promptVars, ollamaVars, evalVars, unitVars>>

vars == <<chunkVars, cacheVars, indexVars, retrVars, askVars>>

-----------------------------------------------------------------------------
(* Bounds of the model *)

MaxUnits == 4
MaxDocs == 2
MaxDocUnits == 2
MaxChunks == 3
MaxTexts == 2
MaxCalls == 3
MaxRetrieved == 5
MaxModels == 2
MaxLines == 3
MaxPageLines == 3

(* The raw scores SpecRetrieve draws from, in halves: inner products of unit
   vectors lie in [-1, 1]; a BM25 score can be negative (rank_bm25 gives a
   term found in more than half of the chunks a negative weight when the
   average idf is negative, as in a one-chunk corpus). *)
DenseRawChoices == {-2, 0, 1, 2}
SparseRawChoices == {-1, 0, 2}
TopKChoices == {-1, 0, 1, 2, 6}

(* The unit length (characters) of the documents SpecIndex builds from. *)
DocUnitLens == {4800}

(* The unit lengths (characters) and the parameter settings SpecChunk draws from. *)
UnitLens == {3, 2400, 4800}
TargetMaxChoices == {600, 1200}
OverlapChoices == {0, 200, 600, 700}

-----------------------------------------------------------------------------
(* Generic helpers *)

Max2(a, b) == IF a >= b THEN a ELSE b
Min2(a, b) == IF a <= b THEN a ELSE b

RECURSIVE SeqsUpTo(_, _)
SeqsUpTo(S, n) ==
    IF n = 0 THEN {<<>>}
    ELSE LET shorter == SeqsUpTo(S, n - 1)
         IN shorter \cup {Append(s, x) : s \in {t \in shorter : Len(t) = n - 1}, x \in S}

SetMin(S) == CHOOSE x \in S : \A y \in S : x <= y
SetMax(S) == CHOOSE x \in S : \A y \in S : x >= y

None == "None"

-----------------------------------------------------------------------------
(* utils.py *)

\* estimate_tokens(text) = max(1, int(len(text) / 4))
estimate_tokens(text) == Max2(1, text.len \div 4)

\* f"chunk_{idx:04d}": the decimal digits, zero-padded on the left to width 4
ChunkIdWidth == 4

RECURSIVE DecDigits(_)
DecDigits(n) == IF n < 10 THEN <<n>> ELSE Append(DecDigits(n \div 10), n % 10)

RECURSIVE ZeroPad(_, _)
ZeroPad(ds, w) == IF Len(ds) >= w THEN ds ELSE ZeroPad(<<0>> \o ds, w)

make_chunk_id(idx_1_based) ==
    [prefix |-> "chunk_", digits |-> ZeroPad(DecDigits(idx_1_based), ChunkIdWidth)]

-----------------------------------------------------------------------------
(* chunking.py *)

\* sum(estimate_tokens(u.text) for u in us)
RECURSIVE SumTokens(_)
SumTokens(us) ==
    IF us = <<>> THEN 0 ELSE estimate_tokens(us[1].text) + SumTokens(Tail(us))

\* len("\n\n".join(u.text for u in us)); unit texts are stripped and non-empty,
\* so the trailing .strip() removes nothing
JoinedLen(us) ==
    LET RECURSIVE L(_)
        L(s) == IF s = <<>> THEN 0 ELSE s[1].text.len + L(Tail(s))
    IN IF us = <<>> THEN 0 ELSE L(us) + 2 * (Len(us) - 1)

\* _tail_overlap_units: walk the units from the end; append, add, stop once
\* total >= overlap_tokens.  TailStart is the index of the first unit kept.
RECURSIVE TailStart(_, _, _, _)
TailStart(us, k, total, overlap) ==
    IF k = 0 THEN 1
    ELSE LET t == total + estimate_tokens(us[k].text)
         IN IF t >= overlap THEN k ELSE TailStart(us, k - 1, t, overlap)

Reverse(s) == [i \in DOMAIN s |-> s[Len(s) + 1 - i]]

\* mutant: returns out_rev without reversing it back
tail_overlap_units_Unreversed(us, overlap) ==
    IF us = <<>> THEN <<>>
    ELSE Reverse(SubSeq(us, TailStart(us, Len(us), 0, overlap), Len(us)))

tail_overlap_units(us, overlap) ==
    IF us = <<>> THEN <<>>
    ELSE SubSeq(us, TailStart(us, Len(us), 0, overlap), Len(us))

\* the last non-null section title among the units, scanning from the end
RECURSIVE LastSection(_)
LastSection(us) ==
    IF us = <<>> THEN None
    ELSE IF us[Len(us)].section_title # None THEN us[Len(us)].section_title
    ELSE LastSection(SubSeq(us, 1, Len(us) - 1))

\* flush_chunk(chunk_units): appends one chunk and advances next_chunk_num,
\* unless the joined text is empty.  Returns the new (chunks, next_chunk_num).
flush_chunk(chs, num, chunk_units, book_title) ==
    IF JoinedLen(chunk_units) = 0 THEN [chunks |-> chs, next_chunk_num |-> num]
    ELSE [chunks |-> Append(chs,
                [book_title |-> book_title,
                 chunk_id |-> make_chunk_id(num),
                 page_start |-> SetMin({chunk_units[i].page_num : i \in DOMAIN chunk_units}),
                 page_end |-> SetMax({chunk_units[i].page_num : i \in DOMAIN chunk_units}),
                 section_title |-> LastSection(chunk_units),
                 token_estimate |-> estimate_tokens([len |-> JoinedLen(chunk_units)]),
                 text |-> [i \in DOMAIN chunk_units |-> chunk_units[i].text]]),
          next_chunk_num |-> num + 1]

\* mutant: the buffer is flushed before the unit is appended to it
LoopBody_FlushBeforeAppend(st, unit, book_title, tmax, overlap) ==
    LET cur == Append(st.current, unit)
        tok == st.current_tokens + estimate_tokens(unit.text)
    IN IF tok >= tmax
       THEN LET f == flush_chunk(st.chunks, st.next_chunk_num, st.current, book_title)
                ov == tail_overlap_units(cur, overlap)
            IN [current |-> ov, current_tokens |-> SumTokens(ov),
                chunks |-> f.chunks, next_chunk_num |-> f.next_chunk_num,
                just_flushed |-> TRUE]
       ELSE [current |-> cur, current_tokens |-> tok,
             chunks |-> st.chunks, next_chunk_num |-> st.next_chunk_num,
             just_flushed |-> FALSE]

\* One iteration of `for unit in units`, as a function of the loop state.
LoopBody(st, unit, book_title, tmax, overlap) ==
    LET cur == Append(st.current, unit)
        tok == st.current_tokens + estimate_tokens(unit.text)
    IN IF tok >= tmax
       THEN LET f == flush_chunk(st.chunks, st.next_chunk_num, cur, book_title)
                ov == tail_overlap_units(cur, overlap)
            IN [current |-> ov, current_tokens |-> SumTokens(ov),
                chunks |-> f.chunks, next_chunk_num |-> f.next_chunk_num,
                just_flushed |-> TRUE]
       ELSE [current |-> cur, current_tokens |-> tok,
             chunks |-> st.chunks, next_chunk_num |-> st.next_chunk_num,
             just_flushed |-> FALSE]

\* the default of target_min_tokens
TargetMinTokens == 900

\* mutant: just_flushed is not consulted
FinalFlush_Always(st, book_title) ==
    IF st.current # <<>>
    THEN flush_chunk(st.chunks, st.next_chunk_num, st.current, book_title).chunks
    ELSE st.chunks

\* `if current and not just_flushed: flush_chunk(current)`; the inner
\* target_min_tokens test is `pass`
FinalFlush(st, book_title) ==
    IF st.current # <<>> /\ ~st.just_flushed
    THEN flush_chunk(st.chunks, st.next_chunk_num, st.current, book_title).chunks
    ELSE st.chunks

LoopInit ==
    [current |-> <<>>, current_tokens |-> 0, chunks |-> <<>>,
     next_chunk_num |-> 1, just_flushed |-> FALSE]

RECURSIVE LoopFrom(_, _, _, _, _)
LoopFrom(st, us, book_title, tmax, overlap) ==
    IF us = <<>> THEN st
    ELSE LoopFrom(LoopBody(st, us[1], book_title, tmax, overlap), Tail(us),
                  book_title, tmax, overlap)

\* build_chunks as a function of the collected units
build_chunks(us, book_title, tmax, overlap) ==
    IF us = <<>> THEN <<>>
    ELSE FinalFlush(LoopFrom(LoopInit, us, book_title, tmax, overlap), book_title)

-----------------------------------------------------------------------------
(* embeddings.py *)

NL == "\n"

\* A string is a sequence of symbols.  SHA-1 is taken to be collision-free:
\* the digest stands for the string hashed.
sha1_text(s) == [sha1 |-> s]

\* key = sha1_text(model_name + "\n" + t)
CacheKey(model_name, t) == sha1_text(model_name \o <<NL>> \o t)

\* A vector is what the backend computed (for which model and text, with
\* which numerical noise) and whether it has unit norm.
l2_normalize(v) == [v EXCEPT !.unit = TRUE]

\* SentenceTransformer.encode(list(ts)): one raw vector per text, in order
BackendEncode(model_name, ts, noise) ==
    [i \in DOMAIN ts |-> [model |-> model_name, text |-> ts[i], noise |-> noise, unit |-> FALSE]]

\* _encoder(ts) = _l2_normalize(model.encode(ts))
Encoder(model_name, ts, noise) ==
    LET arr == BackendEncode(model_name, ts, noise)
    IN [i \in DOMAIN arr |-> l2_normalize(arr[i])]

\* `self.db[key] = v.tolist()`: the list of Python floats pickled into the shelf
tolist(v) == [floats |-> v]

\* `np.asarray(self.db[key], dtype=np.float32)`
asarray(l) == l.floats

\* first loop of get_many: the indices whose key is not in the db, in order
RECURSIVE MissingFrom(_, _, _, _)
MissingFrom(d, model_name, texts, i) ==
    IF i > Len(texts) THEN <<>>
    ELSE IF CacheKey(model_name, texts[i]) \in DOMAIN d
         THEN MissingFrom(d, model_name, texts, i + 1)
         ELSE <<i>> \o MissingFrom(d, model_name, texts, i + 1)

\* mutant: the lookup never hits
MissingIdx_NoLookup(d, model_name, texts) == [i \in DOMAIN texts |-> i]

MissingIdx(d, model_name, texts) == MissingFrom(d, model_name, texts, 1)

MissingTexts(d, model_name, texts) ==
    LET mi == MissingIdx(d, model_name, texts) IN [j \in DOMAIN mi |-> texts[mi[j]]]

\* second loop of get_many: for i, key, vec in zip(missing_idx, missing_keys, enc):
\* db[key] = vec; vectors[i] = vec
RECURSIVE StoreFrom(_, _, _, _, _, _)
StoreFrom(d, model_name, texts, mi, enc, j) ==
    IF j > Min2(Len(mi), Len(enc)) THEN d
    ELSE StoreFrom((CacheKey(model_name, texts[mi[j]]) :> tolist(enc[j])) @@ d,
                   model_name, texts, mi, enc, j + 1)

\* np.vstack([v for v in vectors if v is not None]); a slot is <<v>>, or <<>> for None
RECURSIVE StackRows(_)
StackRows(vs) == IF vs = <<>> THEN <<>> ELSE vs[1] \o StackRows(Tail(vs))

\* get_many(model_name, texts, encoder), given enc = encoder(missing_texts)
\* (called only when missing_texts is not empty).  Returns the new db and the
\* stacked rows.
get_many(d, model_name, texts, enc) ==
    LET mi == MissingIdx(d, model_name, texts)
        PosOf(i) == CHOOSE j \in DOMAIN mi : mi[j] = i
        vectors == [i \in DOMAIN texts |->
                      IF \E j \in DOMAIN mi : mi[j] = i
                      THEN (IF PosOf(i) <= Len(enc) THEN <<enc[PosOf(i)]>> ELSE <<>>)
                      ELSE <<asarray(d[CacheKey(model_name, texts[i])])>>]
    IN [db |-> IF mi = <<>> THEN d ELSE StoreFrom(d, model_name, texts, mi, enc, 1),
        out |-> StackRows(vectors)]

\* encode_texts(texts, cache): get_many with _encoder, then _l2_normalize
encode_texts(d, model_name, texts, noise) ==
    LET g == get_many(d, model_name, texts,
                      Encoder(model_name, MissingTexts(d, model_name, texts), noise))
    IN [db |-> g.db, out |-> [i \in DOMAIN g.out |-> l2_normalize(g.out[i])]]

-----------------------------------------------------------------------------
(* index.py *)

DEFAULT_EMBED_MODEL == <<"BAAI/bge-small-en-v1.5">>

\* A source PDF: whether ingest_pdf can extract it, and the units
\* _collect_units finds in it (each unit on a page of its own).
DocChoices ==
    {[readable |-> FALSE, lens |-> <<>>]}
      \cup {[readable |-> TRUE, lens |-> l] : l \in SeqsUpTo(DocUnitLens, MaxDocUnits)}

DocUnits(doc) ==
    [i \in DOMAIN doc.lens |->
       [text |-> [uid |-> <<doc.lens, i>>, len |-> doc.lens[i]],
        page_num |-> i,
        section_title |-> None]]

\* defaults of build_chunks
TargetMaxTokens == 1200
OverlapTokens == 200

\* the loop over pdf_paths: build_chunks per document, source_pdf added,
\* all_chunks.extend(chunks)
RECURSIVE ExtendAll(_)
ExtendAll(paths) ==
    IF paths = <<>> THEN <<>>
    ELSE LET doc == paths[Len(paths)]
             cs == build_chunks(DocUnits(doc), doc, TargetMaxTokens, OverlapTokens)
         IN ExtendAll(SubSeq(paths, 1, Len(paths) - 1))
              \o [i \in DOMAIN cs |-> ("source_pdf" :> doc) @@ cs[i]]

\* mutant: the global renumbering is left out
Renumber_Skipped(cs) == cs

\* for i, chunk in enumerate(all_chunks, start=1): chunk["chunk_id"] = make_chunk_id(i)
Renumber(cs) == [i \in DOMAIN cs |-> [cs[i] EXCEPT !.chunk_id = make_chunk_id(i)]]

\* the chunk text as the string the cache and the tokenizer see
TextOf(c) == <<c.text>>

\* tokenize_for_bm25(t): the word tokens of the lower-cased text
tokenize_for_bm25(t) == [tokens_of |-> t]

\* A file of out_dir.  A write that raised after opening the file leaves it
\* torn: present, not ok, and not parseable.
Absent == [present |-> FALSE, ok |-> FALSE, readable |-> FALSE, build |-> "none", data |-> <<>>]
File(build, data) == [present |-> TRUE, ok |-> TRUE, readable |-> TRUE, build |-> build, data |-> data]
Torn(build) == [present |-> TRUE, ok |-> FALSE, readable |-> FALSE, build |-> build, data |-> <<>>]

Artifacts == <<"chunks.jsonl", "faiss.index", "bm25_tokens.pkl", "meta.json">>
ArtifactSet == {Artifacts[i] : i \in DOMAIN Artifacts}

FreshDir == [a \in ArtifactSet |-> Absent]

MetaOf(paths, cs, model_name) ==
    [num_documents |-> Len(paths), documents |-> paths,
     num_chunks |-> Len(cs), embed_model |-> model_name]

AllReadable(paths) == \A i \in DOMAIN paths : paths[i].readable

\* what a build that runs to completion writes
CompleteDir(build, paths) ==
    LET cs == Renumber(ExtendAll(paths))
        texts == [i \in DOMAIN cs |-> TextOf(cs[i])]
        e == encode_texts(<<>>, DEFAULT_EMBED_MODEL, texts, 0)
    IN [a \in ArtifactSet |->
          CASE a = "chunks.jsonl" -> File(build, cs)
            [] a = "faiss.index" -> File(build, e.out)
            [] a = "bm25_tokens.pkl" -> File(build, [i \in DOMAIN texts |-> tokenize_for_bm25(texts[i])])
            [] OTHER -> File(build, MetaOf(paths, cs, DEFAULT_EMBED_MODEL))]

-----------------------------------------------------------------------------
(* retrieve.py *)

\* exact rationals n/d, d > 0
Frac(n, d) == [n |-> n, d |-> d]
FracLE(a, b) == a.n * b.d <= b.n * a.d
FracEq(a, b) == a.n * b.d = b.n * a.d
FracAdd(a, b) == Frac(a.n * b.d + b.n * a.d, a.d * b.d)
FracMul(a, b) == Frac(a.n * b.n, a.d * b.d)

\* raw scores are counted in halves
Half(x) == Frac(x, 2)

SeqMax(v) == SetMax({v[i] : i \in DOMAIN v})

\* dense_n = min(n_docs, max(top_k * 8, 50))
DenseCandidateFactor == 8
DenseCandidateFloor == 50
DenseN(n, k) == Min2(n, Max2(k * DenseCandidateFactor, DenseCandidateFloor))

\* faiss_index.search(qvec, dense_n): the ids of dense_n rows with the
\* largest inner products (which of several equal ones is not fixed)
FaissSearch(raw, dense_n) ==
    {S \in SUBSET DOMAIN raw :
        /\ Cardinality(S) = Min2(dense_n, Len(raw))
        /\ \A i \in S : \A j \in DOMAIN raw \ S : raw[i] >= raw[j]}

\* dense_all = zeros(n_docs); dense_all[idx] = max(float(score), 0.0)
DenseAll(raw, S) == [i \in DOMAIN raw |-> IF i \in S THEN Max2(raw[i], 0) ELSE 0]

\* `x / x.max() if x.max() > 0 else x`
Normalize(v) ==
    IF SeqMax(v) > 0
    THEN [i \in DOMAIN v |-> Frac(v[i], SeqMax(v))]
    ELSE [i \in DOMAIN v |-> Half(v[i])]

\* mutant: the two weights are swapped
Fuse_Swapped(dw, sw, dn, sn) == FracAdd(FracMul(sw, dn), FracMul(dw, sn))

\* hybrid = dense_weight * dense_norm + sparse_weight * sparse_norm
Fuse(dw, sw, dn, sn) == FracAdd(FracMul(dw, dn), FracMul(sw, sn))

Scored(dw, sw, dall, sall) ==
    LET dn == Normalize(dall)
        sn == Normalize(sall)
    IN [i \in DOMAIN dall |->
          [dense_norm |-> dn[i], sparse_norm |-> sn[i], hybrid |-> Fuse(dw, sw, dn[i], sn[i])]]

Perms(n) == {p \in [1..n -> 1..n] : \A i, j \in 1..n : p[i] = p[j] => i = j}

\* np.argsort(-hybrid): default kind (quicksort), which is not a stable
\* sort: any order of the ordinals with hybrid non-increasing
Argsort(sc) ==
    {p \in Perms(Len(sc)) :
        \A i, j \in DOMAIN sc : i < j => FracLE(sc[p[j]].hybrid, sc[p[i]].hybrid)}

\* mutant: the ranking is returned whole
PySlice_Whole(seq, k) == seq

\* a Python slice seq[:k]
PySlice(seq, k) ==
    IF k >= 0 THEN SubSeq(seq, 1, Min2(k, Len(seq)))
    ELSE SubSeq(seq, 1, Max2(0, Len(seq) + k))

\* the RetrievedChunk list built from top_ids
ResultsOf(sc, top_ids) ==
    [r \in DOMAIN top_ids |->
       [chunk |-> top_ids[r],
        dense_score |-> sc[top_ids[r]].dense_norm,
        sparse_score |-> sc[top_ids[r]].sparse_norm,
        hybrid_score |-> sc[top_ids[r]].hybrid,
        rank |-> r]]

-----------------------------------------------------------------------------
(* SpecChunk: build_chunks, one loop iteration per step *)

\* A unit list as _collect_units can return it: non-empty stripped texts,
\* page numbers >= 1 that never decrease.
UnitShapes == UnitLens \X {0, 1}

MkUnits(shape) ==
    LET RECURSIVE Page(_)
        Page(i) == IF i = 0 THEN 1 ELSE Page(i - 1) + (IF i = 1 THEN 0 ELSE shape[i][2])
    IN [i \in DOMAIN shape |->
          [text |-> [uid |-> i, len |-> shape[i][1]],
           page_num |-> Page(i),
           section_title |-> None]]

ChunkIdle ==
    /\ units = <<>> /\ target_max_tokens = 0 /\ overlap_tokens = 0
    /\ upos = 0 /\ current = <<>> /\ current_tokens = 0 /\ chunks = <<>>
    /\ next_chunk_num = 0 /\ just_flushed = FALSE /\ cpc = "idle"
    /\ flushed = <<>> /\ lastStep = "none"

CacheHistIdle ==
    /\ ccalls = 0 /\ lastCall = <<>> /\ encodedBefore = {} /\ firstStored = <<>>

CacheIdle == db = <<>> /\ CacheHistIdle

IndexIdle ==
    /\ dir = <<>> /\ bpc = "off" /\ pdf_paths = <<>> /\ all_chunks = <<>>
    /\ embeddings = <<>> /\ lpc = "off" /\ loadWork = <<>> /\ loadDir0 = <<>>
    /\ loaded = <<>>

RetrIdle ==
    /\ n_docs = 0 /\ dense_raw = <<>> /\ sparse_raw = <<>> /\ top_k = 0
    /\ dense_weight = <<>> /\ sparse_weight = <<>> /\ rpc = "off"
    /\ scored = <<>> /\ results = <<>> /\ rcalls = {}

PromptIdle ==
    /\ retrieved = <<>> /\ max_context_chars = 0 /\ remaining_chars = 0 /\ pi = 0
    /\ context_blocks = <<>> /\ ppc = "off" /\ plog = <<>>

OllamaIdle ==
    /\ model_override = None /\ env_model = None /\ cli_models = <<>> /\ api_models = <<>>
    /\ self_model = None /\ opc = "off" /\ resp = None /\ gen_result = [kind |-> "none"]
    /\ requests = <<>>

EvalIdle ==
    /\ eval_lines = <<>> /\ line_no = 0 /\ rows = <<>> /\ out_csv = <<None>>
    /\ epc = "off" /\ gen_log = <<>>

UnitIdle ==
    /\ pages = <<>> /\ pgi = 0 /\ li = 0 /\ collected = <<>> /\ current_section = <<>>
    /\ upc = "off"

AskIdle == PromptIdle /\ OllamaIdle /\ EvalIdle /\ UnitIdle

ChunkInit ==
    /\ CacheIdle /\ IndexIdle /\ RetrIdle /\ AskIdle
    /\ units \in {MkUnits(s) : s \in SeqsUpTo(UnitShapes, MaxUnits)}
    /\ target_max_tokens \in TargetMaxChoices
    /\ overlap_tokens \in OverlapChoices
    /\ upos = 1
    /\ current = <<>> /\ current_tokens = 0 /\ chunks = <<>>
    /\ next_chunk_num = 1 /\ just_flushed = FALSE
    /\ cpc = "loop" /\ flushed = <<>> /\ lastStep = "none"

LoopState ==
    [current |-> current, current_tokens |-> current_tokens, chunks |-> chunks,
     next_chunk_num |-> next_chunk_num, just_flushed |-> just_flushed]

SetLoopState(st) ==
    /\ current' = st.current
    /\ current_tokens' = st.current_tokens
    /\ chunks' = st.chunks
    /\ next_chunk_num' = st.next_chunk_num
    /\ just_flushed' = st.just_flushed

\* `if not units: return []`
ReturnEmpty ==
    /\ cpc = "loop" /\ units = <<>>
    /\ cpc' = "done" /\ lastStep' = "empty"
    /\ UNCHANGED <<units, target_max_tokens, overlap_tokens, upos, current,
                   current_tokens, chunks, next_chunk_num, just_flushed, flushed>>
    /\ UNCHANGED <<cacheVars, indexVars, retrVars, askVars>>

\* an iteration that stays below target_max_tokens
AddUnit ==
    /\ cpc = "loop" /\ upos <= Len(units)
    /\ current_tokens + estimate_tokens(units[upos].text) < target_max_tokens
    /\ SetLoopState(LoopBody(LoopState, units[upos], "book", target_max_tokens, overlap_tokens))
    /\ upos' = upos + 1 /\ lastStep' = "add"
    /\ UNCHANGED <<units, target_max_tokens, overlap_tokens, cpc, flushed>>
    /\ UNCHANGED <<cacheVars, indexVars, retrVars, askVars>>

\* an iteration that reaches target_max_tokens: flush, then seed the overlap
AddUnitFlush ==
    /\ cpc = "loop" /\ upos <= Len(units)
    /\ current_tokens + estimate_tokens(units[upos].text) >= target_max_tokens
    /\ SetLoopState(LoopBody(LoopState, units[upos], "book", target_max_tokens, overlap_tokens))
    /\ flushed' = Append(current, units[upos])
    /\ upos' = upos + 1 /\ lastStep' = "flush"
    /\ UNCHANGED <<units, target_max_tokens, overlap_tokens, cpc>>
    /\ UNCHANGED <<cacheVars, indexVars, retrVars, askVars>>

\* after the loop: the trailing flush, or nothing
FinalStep ==
    /\ cpc = "loop" /\ units # <<>> /\ upos > Len(units)
    /\ chunks' = FinalFlush(LoopState, "book")
    /\ lastStep' = IF current # <<>> /\ ~just_flushed THEN "final" ELSE "skip"
    /\ cpc' = "done"
    /\ UNCHANGED <<units, target_max_tokens, overlap_tokens, upos, current,
                   current_tokens, next_chunk_num, just_flushed, flushed>>
    /\ UNCHANGED <<cacheVars, indexVars, retrVars, askVars>>

ChunkNext == ReturnEmpty \/ AddUnit \/ AddUnitFlush \/ FinalStep

SpecChunk == ChunkInit /\ [][ChunkNext]_vars

-----------------------------------------------------------------------------
(* SpecIndex: one `ingest` into out_dir, and `load_index` of out_dir before *)
(* or after it.  out_dir starts fresh, or holding the index (and the cache) *)
(* an earlier completed build left there.                                   *)

PathLists == SeqsUpTo(DocChoices, MaxDocs)

Buildable(paths) == paths # <<>> /\ AllReadable(paths) /\ ExtendAll(paths) # <<>>

BuildRaised == {"raised_no_paths", "raised_extract", "raised_no_chunks",
                "raised_embed", "raised_faiss", "raised_bm25", "raised_meta"}
BuildOver == {"done"} \cup BuildRaised
LoadOver == {"idle", "returned", "raised"}

NoLoad ==
    /\ lpc' = "idle" /\ loadWork' = <<>> /\ loadDir0' = <<>> /\ loaded' = <<>>

IndexInit ==
    /\ ChunkIdle /\ RetrIdle /\ CacheHistIdle /\ AskIdle
    /\ \/ dir = FreshDir /\ db = <<>>
       \/ \E p \in PathLists :
            /\ Buildable(p)
            /\ dir = CompleteDir("prev", p)
            /\ db = encode_texts(<<>>, DEFAULT_EMBED_MODEL,
                                 [i \in DOMAIN ExtendAll(p) |-> TextOf(ExtendAll(p)[i])], 0).db
    /\ bpc = "idle" /\ pdf_paths = <<>> /\ all_chunks = <<>> /\ embeddings = <<>>
    /\ lpc = "idle" /\ loadWork = <<>> /\ loadDir0 = <<>> /\ loaded = <<>>

\* a step of the build that raises: nothing more is written
BuildRaise(paths, at) ==
    /\ bpc' = at /\ pdf_paths' = paths
    /\ UNCHANGED <<all_chunks, embeddings, db>>

\* `if not pdf_paths: raise ValueError`
BuildNoPaths ==
    /\ bpc = "idle" /\ lpc \in LoadOver
    /\ BuildRaise(<<>>, "raised_no_paths")
    /\ NoLoad
    /\ UNCHANGED <<dir, chunkVars, retrVars, cacheHist, askVars>>

\* ingest_pdf raises for one of the documents
BuildExtractFails ==
    /\ bpc = "idle" /\ lpc \in LoadOver
    /\ \E paths \in PathLists :
         /\ paths # <<>> /\ ~AllReadable(paths)
         /\ BuildRaise(paths, "raised_extract")
    /\ NoLoad
    /\ UNCHANGED <<dir, chunkVars, retrVars, cacheHist, askVars>>

\* `if not all_chunks: raise RuntimeError`
BuildNoChunks ==
    /\ bpc = "idle" /\ lpc \in LoadOver
    /\ \E paths \in PathLists :
         /\ paths # <<>> /\ AllReadable(paths) /\ ExtendAll(paths) = <<>>
         /\ BuildRaise(paths, "raised_no_chunks")
    /\ NoLoad
    /\ UNCHANGED <<dir, chunkVars, retrVars, cacheHist, askVars>>

\* the document loop, the renumbering and write_jsonl(chunks_path, all_chunks)
BuildWriteChunks ==
    /\ bpc = "idle" /\ lpc \in LoadOver
    /\ \E paths \in PathLists :
         /\ Buildable(paths)
         /\ pdf_paths' = paths
         /\ all_chunks' = Renumber(ExtendAll(paths))
    /\ dir' = [dir EXCEPT !["chunks.jsonl"] = File("cur", all_chunks')]
    /\ bpc' = "chunks_written"
    /\ NoLoad
    /\ UNCHANGED <<embeddings, db, chunkVars, retrVars, cacheHist, askVars>>

BuildTexts == [i \in DOMAIN all_chunks |-> TextOf(all_chunks[i])]

\* EmbeddingModel.create and encode_texts(texts, cache=cache)
BuildEmbed ==
    /\ bpc = "chunks_written"
    /\ LET e == encode_texts(db, DEFAULT_EMBED_MODEL, BuildTexts, 0)
       IN /\ embeddings' = e.out
          /\ db' = e.db
    /\ bpc' = "embedded"
    /\ UNCHANGED <<dir, pdf_paths, all_chunks, lpc, loadWork, loadDir0, loaded, chunkVars, retrVars, cacheHist, askVars>>

\* the model cannot be loaded, or the backend call raises: the cache is
\* closed as it was
BuildEmbedFails ==
    /\ bpc = "chunks_written"
    /\ bpc' = "raised_embed"
    /\ UNCHANGED <<dir, db, pdf_paths, all_chunks, embeddings, lpc, loadWork, loadDir0,
                   loaded, chunkVars, retrVars, cacheHist, askVars>>

\* One of the three later writes.  It succeeds, or raises leaving the file
\* as it was (the open failed) or torn.
WriteStep(to, raised, name, data) ==
    /\ \/ /\ dir' = [dir EXCEPT ![name] = File("cur", data)]
          /\ bpc' = to
       \/ /\ \/ dir' = dir
             \/ dir' = [dir EXCEPT ![name] = Torn("cur")]
          /\ bpc' = raised
    /\ UNCHANGED <<db, pdf_paths, all_chunks, embeddings, lpc, loadWork, loadDir0, loaded,
                   chunkVars, retrVars, cacheHist, askVars>>

\* index.add(embeddings); faiss.write_index(index, faiss_path)
BuildWriteFaiss ==
    /\ bpc = "embedded"
    /\ WriteStep("faiss_written", "raised_faiss", "faiss.index", embeddings)

\* pickle.dump([tokenize_for_bm25(t) for t in texts])
BuildWriteBm25 ==
    /\ bpc = "faiss_written"
    /\ WriteStep("bm25_written", "raised_bm25", "bm25_tokens.pkl",
                 [i \in DOMAIN BuildTexts |-> tokenize_for_bm25(BuildTexts[i])])

\* json.dump(meta)
BuildWriteMeta ==
    /\ bpc = "bm25_written"
    /\ WriteStep("done", "raised_meta", "meta.json",
                 MetaOf(pdf_paths, all_chunks, DEFAULT_EMBED_MODEL))

Missing(d) == {i \in DOMAIN Artifacts : ~d[Artifacts[i]].present}

\* mutant: meta.json is not among the paths checked
ExistsCheck_NoMeta(d) ==
    LET m == Missing(d) \ {4}
    IN IF m = {} THEN None ELSE Artifacts[SetMin(m)]

\* `for p in [...]: if not p.exists(): raise FileNotFoundError(p)`: the first
\* missing path, or None
ExistsCheck(d) ==
    IF Missing(d) = {} THEN None ELSE Artifacts[SetMin(Missing(d))]

\* load_index called on a directory that lacks an artifact
LoadMissing ==
    /\ bpc \in {"idle"} \cup BuildOver /\ lpc \in LoadOver
    /\ ExistsCheck(dir) # None
    /\ loaded' = [kind |-> "FileNotFoundError", path |-> ExistsCheck(dir)]
    /\ lpc' = "raised" /\ loadWork' = <<>> /\ loadDir0' = dir
    /\ UNCHANGED <<dir, db, bpc, pdf_paths, all_chunks, embeddings, chunkVars, retrVars, cacheHist, askVars>>

\* load_index called, and the four paths exist
LoadCheckOk ==
    /\ bpc \in {"idle"} \cup BuildOver /\ lpc \in LoadOver
    /\ ExistsCheck(dir) = None
    /\ loaded' = [kind |-> "pending"]
    /\ lpc' = "read_chunks" /\ loadWork' = <<>> /\ loadDir0' = dir
    /\ UNCHANGED <<dir, db, bpc, pdf_paths, all_chunks, embeddings, chunkVars, retrVars, cacheHist, askVars>>

LoadFrame == UNCHANGED <<dir, db, bpc, pdf_paths, all_chunks, embeddings, loadDir0, chunkVars, retrVars, cacheHist, askVars>>

\* a read of load_index: it parses the file, or raises
ReadStep(to, name, field) ==
    /\ loadWork' = Append(loadWork, name)
    /\ \/ /\ dir[name].readable
          /\ loaded' = (field :> dir[name].data) @@ loaded
          /\ lpc' = to
       \/ /\ ~dir[name].readable
          /\ loaded' = [kind |-> "ReadError", path |-> name]
          /\ lpc' = "raised"
    /\ LoadFrame

\* chunks = read_jsonl(chunks_path)
LoadReadChunks ==
    /\ lpc = "read_chunks"
    /\ ReadStep("read_faiss", "chunks.jsonl", "chunks")

\* faiss_index = faiss.read_index(faiss_path)
LoadReadFaiss ==
    /\ lpc = "read_faiss"
    /\ ReadStep("read_bm25", "faiss.index", "faiss_index")

\* tokenized_corpus = pickle.load(f); bm25 = BM25Okapi(tokenized_corpus)
LoadReadBm25 ==
    /\ lpc = "read_bm25"
    /\ ReadStep("read_meta", "bm25_tokens.pkl", "bm25")

\* meta = json.load(f)
LoadReadMeta ==
    /\ lpc = "read_meta"
    /\ ReadStep("embedder", "meta.json", "meta")

\* embedder = EmbeddingModel.create(embed_model_override or meta["embed_model"]);
\* return LoadedIndex(...)
LoadReturn ==
    /\ lpc = "embedder"
    /\ \E over \in {<<>>, <<"other-model">>} :
         loaded' = [loaded EXCEPT !.kind = "LoadedIndex"] @@
                   ("embedder" :> IF over # <<>> THEN over ELSE loaded.meta.embed_model)
    /\ loadWork' = Append(loadWork, "embedder")
    /\ lpc' = "returned"
    /\ LoadFrame

IndexNext ==
    \/ BuildNoPaths \/ BuildExtractFails \/ BuildNoChunks
    \/ BuildWriteChunks
    \/ BuildEmbed \/ BuildEmbedFails
    \/ BuildWriteFaiss \/ BuildWriteBm25 \/ BuildWriteMeta
    \/ LoadMissing \/ LoadCheckOk
    \/ LoadReadChunks \/ LoadReadFaiss \/ LoadReadBm25 \/ LoadReadMeta \/ LoadReturn

SpecIndex == IndexInit /\ [][IndexNext]_vars

-----------------------------------------------------------------------------
(* SpecRetrieve: one call of hybrid_retrieve on a loaded index whose three
   structures have n_docs rows each *)

WeightChoices == {<<Frac(65, 100), Frac(35, 100)>>, <<Frac(1, 2), Frac(1, 2)>>}

RetrInit ==
    /\ ChunkIdle /\ CacheIdle /\ IndexIdle /\ AskIdle
    /\ n_docs \in 0..MaxChunks
    /\ dense_raw \in [1..n_docs -> DenseRawChoices]
    /\ sparse_raw \in [1..n_docs -> SparseRawChoices]
    /\ top_k \in TopKChoices
    /\ \E w \in WeightChoices : dense_weight = w[1] /\ sparse_weight = w[2]
    /\ rpc = "ready" /\ scored = <<>> /\ results = <<>> /\ rcalls = {}

\* `if n_docs == 0: return []`
RetrieveEmpty ==
    /\ rpc = "ready" /\ n_docs = 0
    /\ rpc' = "done" /\ results' = <<>>
    /\ UNCHANGED <<n_docs, dense_raw, sparse_raw, top_k, dense_weight, sparse_weight,
                   scored, rcalls>>
    /\ UNCHANGED <<chunkVars, cacheVars, indexVars, askVars>>

\* the rest of hybrid_retrieve
Retrieve ==
    /\ rpc = "ready" /\ n_docs > 0
    /\ rcalls' = {"encode_query", "faiss.search", "bm25.get_scores"}
    /\ \E S \in FaissSearch(dense_raw, DenseN(n_docs, top_k)) :
         scored' = Scored(dense_weight, sparse_weight, DenseAll(dense_raw, S), sparse_raw)
    /\ \E p \in Argsort(scored') :
         results' = ResultsOf(scored', PySlice(p, top_k))
    /\ rpc' = "done"
    /\ UNCHANGED <<n_docs, dense_raw, sparse_raw, top_k, dense_weight, sparse_weight>>
    /\ UNCHANGED <<chunkVars, cacheVars, indexVars, askVars>>

RetrNext == RetrieveEmpty \/ Retrieve

SpecRetrieve == RetrInit /\ [][RetrNext]_vars

-----------------------------------------------------------------------------
(* SpecCache: a sequence of get_many calls on one open EmbeddingCache *)

ModelNames == {DEFAULT_EMBED_MODEL, <<"other-model">>}

TextChoices == {<<"a">>, <<"a", NL, "b">>}

\* what the backend's arithmetic may add to a vector, from one call to the next
NoiseChoices == {0, 1}

TextLists == SeqsUpTo(TextChoices, MaxTexts)

Pairs(model_name, ts) == {[model |-> model_name, text |-> ts[i]] : i \in DOMAIN ts}

\* the pairs the latest call had encoded when it returned
EncodedBy(call) ==
    IF call # <<>> /\ call.kind = "returned"
    THEN UNION {Pairs(call.model, call.backend[b]) : b \in DOMAIN call.backend}
    ELSE {}

\* the keys of d2 that d1 has not, with the vectors d2 holds for them
NewlyStored(d1, d2) ==
    [k \in (DOMAIN d2) \ (DOMAIN d1) |-> asarray(d2[k])]

CacheInit ==
    /\ ChunkIdle /\ IndexIdle /\ RetrIdle /\ AskIdle
    /\ CacheIdle

CallFrame == UNCHANGED <<chunkVars, indexVars, retrVars, askVars>>

\* get_many(model_name, []): np.vstack of an empty list raises ValueError
GetManyEmpty ==
    /\ ccalls < MaxCalls
    /\ \E m \in ModelNames :
         lastCall' = [kind |-> "ValueError", model |-> m, texts |-> <<>>, db0 |-> db,
                      backend |-> <<>>, out |-> <<>>]
    /\ ccalls' = ccalls + 1
    /\ encodedBefore' = encodedBefore \cup EncodedBy(lastCall)
    /\ UNCHANGED <<db, firstStored>>
    /\ CallFrame

\* get_many(model_name, texts, encoder) runs to its return
GetMany ==
    /\ ccalls < MaxCalls
    /\ \E m \in ModelNames, ts \in TextLists \ {<<>>}, noise \in NoiseChoices :
         LET mt == MissingTexts(db, m, ts)
             g == get_many(db, m, ts, Encoder(m, mt, noise))
         IN /\ db' = g.db
            /\ lastCall' = [kind |-> "returned", model |-> m, texts |-> ts, db0 |-> db,
                            backend |-> IF mt = <<>> THEN <<>> ELSE <<mt>>,
                            out |-> g.out]
            /\ firstStored' = firstStored @@ NewlyStored(firstStored, g.db)
    /\ ccalls' = ccalls + 1
    /\ encodedBefore' = encodedBefore \cup EncodedBy(lastCall)
    /\ CallFrame

\* get_many whose encoder(missing_texts) raises: nothing is stored
GetManyEncoderRaises ==
    /\ ccalls < MaxCalls
    /\ \E m \in ModelNames, ts \in TextLists \ {<<>>} :
         LET mt == MissingTexts(db, m, ts)
         IN /\ mt # <<>>
            /\ lastCall' = [kind |-> "raised", model |-> m, texts |-> ts, db0 |-> db,
                            backend |-> <<mt>>, out |-> <<>>]
    /\ ccalls' = ccalls + 1
    /\ encodedBefore' = encodedBefore \cup EncodedBy(lastCall)
    /\ UNCHANGED <<db, firstStored>>
    /\ CallFrame

CacheNext == GetManyEmpty \/ GetMany \/ GetManyEncoderRaises

SpecCache == CacheInit /\ [][CacheNext]_vars

-----------------------------------------------------------------------------
(* prompt.py.  Texts are modelled by their lengths in characters: a header
   by len(header), a chunk by the length of _clean_context_text(text) and by
   whether the cut of _truncate_text ends on a space. *)

MinContextChars == 500
DefaultContextChars == 2000

\* _max_context_chars(): raw is the value of RAG_MAX_CONTEXT_CHARS, a decimal
\* integer or not
MaxContextChars(raw) ==
    IF raw.isint THEN Max2(MinContextChars, raw.val) ELSE DefaultContextChars

EllipsisLen == 3

\* mutant: the text is never cut
truncate_text_Whole(text, remaining) == text.clean

\* _truncate_text(text, remaining_chars): the length of what it returns.
\* text[: remaining_chars - 3].rstrip() loses one character when the cut ends
\* on a space (the cleaned text has single spaces only, and starts with a
\* character that is not one).
truncate_text(text, remaining) ==
    IF remaining <= 0 THEN 0
    ELSE IF text.clean <= remaining THEN text.clean
    ELSE IF remaining <= EllipsisLen THEN remaining
    ELSE (remaining - EllipsisLen)
           - (IF text.cut_space /\ remaining - EllipsisLen >= 2 THEN 1 ELSE 0)
           + EllipsisLen

PerChunkFloor == 350

\* per_chunk_budget = max(350, remaining_chars // max(1, remaining_chunks))
per_chunk_budget(remaining, remaining_chunks) ==
    Max2(PerChunkFloor, remaining \div Max2(1, remaining_chunks))

\* text_budget = max(0, per_chunk_budget - len(header))
text_budget(remaining, remaining_chunks, header) ==
    Max2(0, per_chunk_budget(remaining, remaining_chunks) - header)

\* len("\n\n---\n\n")
DelimiterLen == 7

\* len("(no context retrieved)")
NoContextLen == 22

BlockLen(b) == b.header + b.text

\* mutant: the delimiter is not charged
BlockCost_NoDelimiter(b) == BlockLen(b)

\* `remaining_chars -= len(block) + len("\n\n---\n\n")`
BlockCost(b) == BlockLen(b) + DelimiterLen

RECURSIVE SumBlocks(_)
SumBlocks(bs) == IF bs = <<>> THEN 0 ELSE BlockLen(bs[1]) + SumBlocks(Tail(bs))

\* len(context), context = "\n\n---\n\n".join(context_blocks), or the placeholder
ContextLen(bs) ==
    IF bs = <<>> THEN NoContextLen
    ELSE SumBlocks(bs) + DelimiterLen * (Len(bs) - 1)

-----------------------------------------------------------------------------
(* SpecPrompt: one call of build_answer_prompt *)

\* RAG_MAX_CONTEXT_CHARS: below the floor, above it, not a number (or unset)
BudgetEnv == {[isint |-> TRUE, val |-> 100], [isint |-> TRUE, val |-> 800],
              [isint |-> FALSE, val |-> 0]}

\* the retrieved chunks: a short header or one longer than the per-chunk
\* floor; a text that cleans to nothing, a short one, a long one
ChunkShapes ==
    {[header |-> 60, clean |-> 0, cut_space |-> FALSE],
     [header |-> 60, clean |-> 100, cut_space |-> FALSE],
     [header |-> 60, clean |-> 1000, cut_space |-> FALSE],
     [header |-> 60, clean |-> 1000, cut_space |-> TRUE],
     [header |-> 400, clean |-> 1000, cut_space |-> FALSE]}

PipelineIdle == ChunkIdle /\ CacheIdle /\ IndexIdle /\ RetrIdle

pipelineVars == <<chunkVars, cacheVars, indexVars, retrVars>>

PromptInit ==
    /\ PipelineIdle /\ OllamaIdle /\ EvalIdle /\ UnitIdle
    /\ retrieved \in SeqsUpTo(ChunkShapes, MaxRetrieved)
    /\ \E raw \in BudgetEnv : max_context_chars = MaxContextChars(raw)
    /\ remaining_chars = max_context_chars
    /\ pi = 1 /\ context_blocks = <<>> /\ ppc = "loop" /\ plog = <<>>

PromptFrame == UNCHANGED <<retrieved, max_context_chars, pipelineVars, ollamaVars, evalVars, unitVars>>

RemainingChunks == Len(retrieved) - pi + 1

TextBudget == text_budget(remaining_chars, RemainingChunks, retrieved[pi].header)

LogEntry(what) == [i |-> pi, what |-> what, before |-> remaining_chars,
                   text_budget |-> IF what = "break" THEN 0 ELSE TextBudget]

\* `if remaining_chars <= 0: break`, then the join
PromptBreak ==
    /\ ppc = "loop" /\ pi <= Len(retrieved)
    /\ remaining_chars <= 0
    /\ ppc' = "done"
    /\ plog' = Append(plog, LogEntry("break"))
    /\ UNCHANGED <<remaining_chars, pi, context_blocks>>
    /\ PromptFrame

\* `if not text: continue`
PromptSkip ==
    /\ ppc = "loop" /\ pi <= Len(retrieved)
    /\ remaining_chars > 0
    /\ truncate_text(retrieved[pi], TextBudget) = 0
    /\ pi' = pi + 1
    /\ plog' = Append(plog, LogEntry("skip"))
    /\ UNCHANGED <<remaining_chars, context_blocks, ppc>>
    /\ PromptFrame

\* the block is appended and charged
PromptEmit ==
    /\ ppc = "loop" /\ pi <= Len(retrieved)
    /\ remaining_chars > 0
    /\ truncate_text(retrieved[pi], TextBudget) # 0
    /\ LET block == [label |-> pi, header |-> retrieved[pi].header,
                     text |-> truncate_text(retrieved[pi], TextBudget)]
       IN /\ context_blocks' = Append(context_blocks, block)
          /\ remaining_chars' = remaining_chars - BlockCost(block)
    /\ pi' = pi + 1
    /\ plog' = Append(plog, LogEntry("emit"))
    /\ UNCHANGED ppc
    /\ PromptFrame

\* the list is exhausted: the join
PromptEnd ==
    /\ ppc = "loop" /\ pi > Len(retrieved)
    /\ ppc' = "done"
    /\ UNCHANGED <<remaining_chars, pi, context_blocks, plog>>
    /\ PromptFrame

PromptNext == PromptBreak \/ PromptSkip \/ PromptEmit \/ PromptEnd

SpecPrompt == PromptInit /\ [][PromptNext]_vars

-----------------------------------------------------------------------------
(* llm_ollama.py *)

PREFERRED_MODELS ==
    <<"qwen2.5:3b", "qwen:0.5b", "qwen2.5:0.5b", "qwen2.5:14b", "qwen2.5:7b",
      "llama3.1:8b", "mistral:7b">>

Range(f) == {f[i] : i \in DOMAIN f}

\* Python truth of an optional string
Truthy(x) == x # None /\ x # ""

\* _list_local_models(host): the CLI list, else the API list
list_local_models(cli, api) == IF cli # <<>> THEN cli ELSE api

\* mutant: the preference order is not consulted
select_preferred_model_FirstListed(models) ==
    IF models = <<>> THEN None ELSE models[1]

\* _select_preferred_model(models)
select_preferred_model(models) ==
    LET hits == {k \in DOMAIN PREFERRED_MODELS : PREFERRED_MODELS[k] \in Range(models)}
    IN IF hits # {} THEN PREFERRED_MODELS[SetMin(hits)]
       ELSE IF models # <<>> THEN models[1] ELSE None

\* `model_override or os.getenv("OLLAMA_MODEL")`
OverrideOrEnv(override, env) == IF Truthy(override) THEN override ELSE env

\* the model OllamaClient.create settles on, None when it raises
ResolveModel(override, env, cli, api) ==
    IF Truthy(OverrideOrEnv(override, env)) THEN OverrideOrEnv(override, env)
    ELSE select_preferred_model(list_local_models(cli, api))

\* mutant: the model in use is not excluded
Fallback_SameAllowed(model, available) == select_preferred_model(available)

\* `_select_preferred_model([m for m in available if m != self.model])`
Fallback(model, available) ==
    select_preferred_model(SelectSeq(available, LAMBDA m : m # model))

\* _missing_model(resp)
missing_model(r) == r = "missing_model"

\* resp.raise_for_status() raises
StatusError(r) == r \in {"missing_model", "http_error"}

-----------------------------------------------------------------------------
(* SpecOllama: OllamaClient.create, then one generate call *)

LocalModelChoices == {"qwen2.5:7b", "mistral:7b", "custom:latest"}

ModelLists ==
    {l \in SeqsUpTo(LocalModelChoices, MaxModels) :
        \A i, j \in DOMAIN l : l[i] = l[j] => i = j}

\* what requests.post can come to: a 200 with a JSON body, a 404 saying the
\* model is not found, another error status, a 200 whose body is not JSON, or
\* an exception (connection refused, timeout)
Responses == {"ok", "missing_model", "http_error", "bad_json", "exception"}

OllamaInit ==
    /\ PipelineIdle /\ PromptIdle /\ EvalIdle /\ UnitIdle
    /\ model_override \in {None, "", "override-model"}
    /\ env_model \in {None, "", "env-model"}
    /\ cli_models \in ModelLists
    /\ api_models \in ModelLists
    /\ self_model = None /\ opc = "new" /\ resp = None /\ gen_result = [kind |-> "none"]
    /\ requests = <<>>

OllamaFrame == UNCHANGED <<model_override, env_model, cli_models, api_models, pipelineVars,
                           promptVars, evalVars, unitVars>>

Resolved == ResolveModel(model_override, env_model, cli_models, api_models)

\* create returns a client
Create ==
    /\ opc = "new"
    /\ Truthy(Resolved)
    /\ self_model' = Resolved /\ opc' = "created"
    /\ UNCHANGED <<resp, gen_result, requests>>
    /\ OllamaFrame

\* create raises "No suitable Ollama model found locally"
CreateRaises ==
    /\ opc = "new"
    /\ ~Truthy(Resolved)
    /\ opc' = "create_raised"
    /\ UNCHANGED <<self_model, resp, gen_result, requests>>
    /\ OllamaFrame

\* `resp = _request(self.model)`
GenRequest ==
    /\ opc = "created"
    /\ \E r \in Responses :
         /\ requests' = Append(requests, [model |-> self_model, resp |-> r])
         /\ IF r = "exception"
            THEN opc' = "raised" /\ resp' = None /\ gen_result' = [kind |-> "RuntimeError"]
            ELSE opc' = "responded" /\ resp' = r /\ gen_result' = [kind |-> "none"]
    /\ UNCHANGED self_model
    /\ OllamaFrame

FallbackNow == Fallback(self_model, list_local_models(cli_models, api_models))

\* the model is missing and there is a fallback: `self.model = fallback;
\* resp = _request(self.model)`
GenRetry ==
    /\ opc = "responded" /\ missing_model(resp)
    /\ Truthy(FallbackNow)
    /\ self_model' = FallbackNow
    /\ \E r \in Responses :
         /\ requests' = Append(requests, [model |-> FallbackNow, resp |-> r])
         /\ IF r = "exception"
            THEN opc' = "raised" /\ resp' = None /\ gen_result' = [kind |-> "RuntimeError"]
            ELSE opc' = "retried" /\ resp' = r /\ gen_result' = [kind |-> "none"]
    /\ OllamaFrame

\* raise_for_status, resp.json(), return; any exception becomes RuntimeError
GenFinish ==
    /\ \/ opc = "retried"
       \/ opc = "responded" /\ ~(missing_model(resp) /\ Truthy(FallbackNow))
    /\ IF StatusError(resp) \/ resp = "bad_json"
       THEN opc' = "raised" /\ gen_result' = [kind |-> "RuntimeError"]
       ELSE opc' = "returned" /\ gen_result' = [kind |-> "response", model |-> self_model]
    /\ UNCHANGED <<self_model, resp, requests>>
    /\ OllamaFrame

OllamaNext == Create \/ CreateRaises \/ GenRequest \/ GenRetry \/ GenFinish

SpecOllama == OllamaInit /\ [][OllamaNext]_vars

-----------------------------------------------------------------------------
(* eval.py.  A text is modelled by what the keyword test can see of it:
   whether it is empty and whether it holds the keyword "kw". *)

EmptyText == [empty |-> TRUE, has_kw |-> FALSE]

\* k.strip()
Strip(k) == IF k = " " THEN "" ELSE k

\* k.lower() in t
KeywordIn(k, t) ==
    IF k = "" THEN TRUE
    ELSE IF k = " " THEN ~t.empty
    ELSE t.has_kw

\* _contains_any_keyword(text, keywords)
contains_any_keyword(t, keywords) ==
    \E i \in DOMAIN keywords : Strip(keywords[i]) # "" /\ KeywordIn(keywords[i], t)

\* int(b)
BoolInt(b) == IF b THEN 1 ELSE 0

\* hybrid_retrieve(idx, question, top_k): the chunks retrieved for the question
RetrievedFor(q) == [chunks_for |-> q.question]

\* mutant: a failed generation leaves the previous answer in place
AnswerOnFailure_Stale(previous) == previous

\* `except Exception: answer = ""`
AnswerOnFailure(previous) == EmptyText

\* the row appended for the question at line ln, given the answer
EvalRow(ln, q, answer) ==
    [line_no |-> ln,
     question |-> q.question,
     expected_keywords |-> q.expected_keywords,
     retrieval_hit_at_k |-> BoolInt(contains_any_keyword(q.blob, q.expected_keywords)),
     answer_contains_keyword |-> BoolInt(contains_any_keyword(answer, q.expected_keywords)),
     retrieved_chunk_ids |-> RetrievedFor(q),
     answer |-> answer]

-----------------------------------------------------------------------------
(* SpecEval: one run of run_eval, after load_index and OllamaClient.create *)

\* a question line: its keywords, what the retrieved text and the answer of
\* the model (when it answers) hold
QuestionLines ==
    {[kind |-> "question", question |-> [kws |-> k, b |-> b, g |-> g],
      expected_keywords |-> k,
      blob |-> [empty |-> FALSE, has_kw |-> b],
      generated |-> [empty |-> FALSE, has_kw |-> g]] :
        k \in {<<"kw">>, <<" ">>}, b \in BOOLEAN, g \in BOOLEAN}

\* a line of the file: blank, a question, or one that json.loads rejects
LineChoices == {[kind |-> "blank"], [kind |-> "bad_json"]} \cup QuestionLines

EvalInit ==
    /\ PipelineIdle /\ PromptIdle /\ OllamaIdle /\ UnitIdle
    /\ eval_lines \in SeqsUpTo(LineChoices, MaxLines)
    /\ line_no = 1 /\ rows = <<>> /\ out_csv = <<None>> /\ epc = "loop" /\ gen_log = <<>>

EvalFrame == UNCHANGED <<eval_lines, pipelineVars, promptVars, ollamaVars, unitVars>>

AtLine(kind) == epc = "loop" /\ line_no <= Len(eval_lines) /\ eval_lines[line_no].kind = kind

\* the answer of the question before, "" when there is none: what the
\* variable `answer` holds when the try block is entered
PreviousAnswer == IF rows = <<>> THEN EmptyText ELSE rows[Len(rows)].answer

\* `if not line: continue`
EvalBlank ==
    /\ AtLine("blank")
    /\ line_no' = line_no + 1
    /\ UNCHANGED <<rows, out_csv, epc, gen_log>>
    /\ EvalFrame

\* json.loads(line) raises: run_eval ends there, no file is written
EvalBadLine ==
    /\ AtLine("bad_json")
    /\ epc' = "raised"
    /\ UNCHANGED <<line_no, rows, out_csv, gen_log>>
    /\ EvalFrame

\* a question whose generation returns
EvalAnswered ==
    /\ AtLine("question")
    /\ rows' = Append(rows, EvalRow(line_no, eval_lines[line_no],
                                    eval_lines[line_no].generated))
    /\ gen_log' = Append(gen_log, [line_no |-> line_no, raised |-> FALSE])
    /\ line_no' = line_no + 1
    /\ UNCHANGED <<out_csv, epc>>
    /\ EvalFrame

\* a question whose generation raises
EvalGenerationFails ==
    /\ AtLine("question")
    /\ rows' = Append(rows, EvalRow(line_no, eval_lines[line_no],
                                    AnswerOnFailure(PreviousAnswer)))
    /\ gen_log' = Append(gen_log, [line_no |-> line_no, raised |-> TRUE])
    /\ line_no' = line_no + 1
    /\ UNCHANGED <<out_csv, epc>>
    /\ EvalFrame

\* the file is read through: the CSV is written
EvalWrite ==
    /\ epc = "loop" /\ line_no > Len(eval_lines)
    /\ out_csv' = rows
    /\ epc' = "written"
    /\ UNCHANGED <<line_no, rows, gen_log>>
    /\ EvalFrame

EvalNext == EvalBlank \/ EvalBadLine \/ EvalAnswered \/ EvalGenerationFails \/ EvalWrite

SpecEval == EvalInit /\ [][EvalNext]_vars

-----------------------------------------------------------------------------
(* _collect_units (chunking.py).  A line is modelled by where it stands and
   by what the two heading tests see of it: "blank" (empty once stripped),
   "caps" (at most 120 characters, three letters or more, equal to its upper
   case), "title" (at most 120 characters, 1 to 14 words of which 70% or more
   start with a capital, not all caps), "plain" (none of these). *)

LineKinds == {"blank", "caps", "title", "plain"}

\* the line `lines[i]` of a page, "" (a blank line) past the end
LineAt(lines, i) == IF i \in DOMAIN lines THEN lines[i] ELSE [kind |-> "blank"]

\* _is_all_caps_heading(line)
is_all_caps_heading(line) == line.kind = "caps"

\* _is_title_case_heading(line, next_line): a caps line of 1 to 14 words
\* passes the word test too
is_title_case_heading(line, next_line) ==
    /\ line.kind \in {"title", "caps"}
    /\ next_line.kind = "blank"

\* the end of the paragraph that starts at line i: the index after its last
\* line (`while i < len(lines) and lines[i].strip()`)
RECURSIVE ParagraphEnd(_, _)
ParagraphEnd(lines, i) ==
    IF i \in DOMAIN lines /\ lines[i].kind # "blank"
    THEN ParagraphEnd(lines, i + 1)
    ELSE i

\* the text of a line: the line itself, named by its place
LineText(p, i) == [page |-> p, line |-> i]

-----------------------------------------------------------------------------
(* SpecUnits: one call of _collect_units *)

PageLines(n) == SeqsUpTo([kind : LineKinds], n)

\* one page, or two of which the second is shorter
PageLists ==
    {<<>>}
      \cup {<<[page_num |-> 1, lines |-> l]>> : l \in PageLines(MaxPageLines)}
      \cup {<<[page_num |-> 1, lines |-> l1], [page_num |-> 2, lines |-> l2]>> :
              l1 \in PageLines(MaxPageLines), l2 \in PageLines(MaxPageLines - 1)}

UnitsInit ==
    /\ PipelineIdle /\ PromptIdle /\ OllamaIdle /\ EvalIdle
    /\ pages \in PageLists
    /\ pgi = 1 /\ li = 1 /\ collected = <<>> /\ current_section = <<>> /\ upc = "loop"

UnitsFrame == UNCHANGED <<pages, pipelineVars, promptVars, ollamaVars, evalVars>>

InPage == upc = "loop" /\ pgi <= Len(pages) /\ li <= Len(pages[pgi].lines)

Line == pages[pgi].lines[li]

NextLine == LineAt(pages[pgi].lines, li + 1)

IsHeadingHere == is_all_caps_heading(Line) \/ is_title_case_heading(Line, NextLine)

\* `if not line: i += 1; continue`
CollectBlank ==
    /\ InPage /\ Line.kind = "blank"
    /\ li' = li + 1
    /\ UNCHANGED <<pgi, collected, current_section, upc>>
    /\ UnitsFrame

\* a heading: a unit of its own, and the current section from here on
CollectHeading ==
    /\ InPage /\ Line.kind # "blank" /\ IsHeadingHere
    /\ current_section' = <<LineText(pgi, li)>>
    /\ collected' = Append(collected,
                      [text |-> <<LineText(pgi, li)>>, page_num |-> pages[pgi].page_num,
                       section_title |-> <<LineText(pgi, li)>>])
    /\ li' = li + 1
    /\ UNCHANGED <<pgi, upc>>
    /\ UnitsFrame

\* a paragraph: this line and the non-blank lines after it, joined
CollectParagraph ==
    /\ InPage /\ Line.kind # "blank" /\ ~IsHeadingHere
    /\ LET e == ParagraphEnd(pages[pgi].lines, li + 1)
       IN /\ collected' = Append(collected,
                            [text |-> [k \in 1..(e - li) |-> LineText(pgi, li + k - 1)],
                             page_num |-> pages[pgi].page_num,
                             section_title |-> current_section])
          /\ li' = e
    /\ UNCHANGED <<pgi, current_section, upc>>
    /\ UnitsFrame

\* the page is read through: `for p in pages`
CollectNextPage ==
    /\ upc = "loop" /\ pgi <= Len(pages) /\ li > Len(pages[pgi].lines)
    /\ pgi' = pgi + 1 /\ li' = 1
    /\ UNCHANGED <<collected, current_section, upc>>
    /\ UnitsFrame

\* `return units`
CollectReturn ==
    /\ upc = "loop" /\ pgi > Len(pages)
    /\ upc' = "done"
    /\ UNCHANGED <<pgi, li, collected, current_section>>
    /\ UnitsFrame

UnitsNext ==
    CollectBlank \/ CollectHeading \/ CollectParagraph \/ CollectNextPage \/ CollectReturn

SpecUnits == UnitsInit /\ [][UnitsNext]_vars

-----------------------------------------------------------------------------
(* Claims about build_chunks (SpecChunk) *)

\* the last k units of us
SuffixOf(us, k) == SubSeq(us, Len(us) - k + 1, Len(us))

\* the length of the shortest suffix of us, of at least kmin units, whose
\* token sum is >= overlap; the whole list when no suffix reaches it
ShortestSuffixLen(us, overlap, kmin) ==
    LET ok == {k \in kmin..Len(us) : SumTokens(SuffixOf(us, k)) >= overlap}
    IN IF ok = {} THEN Len(us) ELSE SetMin(ok)

CarriedIs(kmin) ==
    lastStep = "flush" =>
        /\ current = SuffixOf(flushed, ShortestSuffixLen(flushed, overlap_tokens, kmin))
        /\ (SumTokens(flushed) < overlap_tokens => current = flushed)
        /\ current_tokens = SumTokens(current)

\* C2 as stated: after every max-token flush the new buffer is the shortest
\* suffix (the empty one included) of the flushed buffer whose token sum is
\* >= overlap_tokens, the whole buffer when it sums to less, and
\* current_tokens is the sum over exactly the carried units.
C2_ShortestSuffix == CarriedIs(0)

\* C2 amended: the carried units are the shortest NON-EMPTY suffix of the
\* flushed buffer whose token sum is >= overlap_tokens (at least one unit is
\* always carried, also when overlap_tokens <= 0), the whole buffer when it
\* sums to less, and current_tokens is the sum over exactly the carried units.
C2_ShortestNonEmptySuffix == CarriedIs(1)

\* a flush that carried two or more units, and not the whole buffer
C2_Witness ==
    /\ lastStep = "flush"
    /\ Len(current) >= 2
    /\ Len(current) < Len(flushed)
    /\ overlap_tokens > 0

\* the texts of the units of a buffer
TextsOf(us) == [i \in DOMAIN us |-> us[i].text]

\* the unit texts that a chunk of chs holds
InChunks(chs) == UNION {Range(chs[c].text) : c \in DOMAIN chs}

\* the units of the buffer added since the last max-token flush: those that
\* no chunk holds yet
AddedSinceFlush == {i \in DOMAIN current : current[i].text \notin InChunks(chunks)}

\* the step after the last unit
IsFinalStep == cpc = "loop" /\ cpc' = "done" /\ units # <<>>

\* C16: after the last unit a trailing chunk, made of the buffer, is emitted
\* if and only if the buffer holds a unit added since the last max-token
\* flush, whatever its size; every chunk holds a unit that no earlier chunk
\* holds, and there are never more chunks than units.
C16_FinalFlush ==
    /\ [][IsFinalStep =>
            IF AddedSinceFlush # {}
            THEN /\ chunks' = Append(chunks, chunks'[Len(chunks')])
                 /\ chunks'[Len(chunks')].text = TextsOf(current)
            ELSE chunks' = chunks]_vars
    /\ [](/\ \A c \in DOMAIN chunks :
               \E t \in Range(chunks[c].text) : t \notin InChunks(SubSeq(chunks, 1, c - 1))
          /\ Len(chunks) <= Len(units))

\* a trailing chunk below target_min_tokens was emitted after a max-token
\* flush: it holds carried-over units and one new unit
C16_Witness ==
    /\ cpc = "done" /\ lastStep = "final"
    /\ Len(chunks) >= 2
    /\ chunks[Len(chunks)].token_estimate < TargetMinTokens
    /\ Len(chunks[Len(chunks)].text) >= 2
    /\ chunks[Len(chunks)].text[1] \in Range(chunks[Len(chunks) - 1].text)

\* chunk c is the run units[a..b]
IsRun(c, a, b) ==
    /\ a <= b
    /\ c.text = TextsOf(SubSeq(units, a, b))
    /\ c.page_start = SetMin({units[i].page_num : i \in a..b})
    /\ c.page_end = SetMax({units[i].page_num : i \in a..b})
    /\ c.token_estimate = estimate_tokens([len |-> JoinedLen(SubSeq(units, a, b))])

\* C17: every chunk is the join of a contiguous run of whole units in
\* document order, with a text that is not empty and the least and greatest
\* page of its units as page_start and page_end; when build_chunks returns,
\* every unit is in some chunk, a unit above target_max_tokens too, and
\* there are no chunks exactly when there are no units.
C17_WholeUnits ==
    /\ \A c \in DOMAIN chunks :
         /\ \E a, b \in DOMAIN units : IsRun(chunks[c], a, b)
         /\ JoinedLen([i \in DOMAIN chunks[c].text |-> [text |-> chunks[c].text[i]]]) > 0
    /\ cpc = "done" =>
         /\ \A i \in DOMAIN units : units[i].text \in InChunks(chunks)
         /\ (chunks = <<>>) <=> (units = <<>>)

\* a unit that alone exceeds target_max_tokens is a chunk of its own, and
\* a later chunk spans two pages
C17_Witness ==
    /\ cpc = "done"
    /\ Len(chunks) >= 2
    /\ Len(chunks[1].text) = 1
    /\ estimate_tokens(chunks[1].text[1]) > target_max_tokens
    /\ \E c \in DOMAIN chunks : chunks[c].page_start < chunks[c].page_end

-----------------------------------------------------------------------------
(* Claims about build_and_persist_index and load_index (SpecIndex) *)

\* the number a chunk id's digits spell
RECURSIVE DigitsValue(_)
DigitsValue(ds) ==
    IF ds = <<>> THEN 0 ELSE 10 * DigitsValue(SubSeq(ds, 1, Len(ds) - 1)) + ds[Len(ds)]

\* the chunks build_chunks emits for document d of the list, ids as it assigns them
DocChunks(paths, d) == build_chunks(DocUnits(paths[d]), paths[d], TargetMaxTokens, OverlapTokens)

RECURSIVE ChunksBefore(_, _)
ChunksBefore(paths, d) ==
    IF d = 1 THEN 0 ELSE ChunksBefore(paths, d - 1) + Len(DocChunks(paths, d - 1))

TotalChunks(paths) == ChunksBefore(paths, Len(paths) + 1)

\* C1: when a build completes, chunks.jsonl holds exactly the chunks of the
\* input documents in concatenation order (emission order within a
\* document), the i-th of them carries the id chunk_<i> (at least four
\* digits, zero-padded), so the ids are 1..N without gap or duplicate, and a
\* chunk whose per-document number differs from i does not keep the id
\* build_chunks gave it.
C1_ContiguousIds ==
    bpc = "done" =>
        LET cs == dir["chunks.jsonl"].data
        IN /\ Len(cs) = TotalChunks(pdf_paths)
           /\ \A i \in DOMAIN cs :
                /\ cs[i].chunk_id.prefix = "chunk_"
                /\ Len(cs[i].chunk_id.digits) >= ChunkIdWidth
                /\ DigitsValue(cs[i].chunk_id.digits) = i
           /\ \A d \in DOMAIN pdf_paths : \A j \in DOMAIN DocChunks(pdf_paths, d) :
                LET i == ChunksBefore(pdf_paths, d) + j
                IN /\ cs[i].text = DocChunks(pdf_paths, d)[j].text
                   /\ cs[i].source_pdf = pdf_paths[d]
                   /\ (i # j => cs[i].chunk_id # DocChunks(pdf_paths, d)[j].chunk_id)

\* a completed build of two documents, the second with two chunks
C1_Witness ==
    /\ bpc = "done"
    /\ Len(pdf_paths) = 2
    /\ Len(DocChunks(pdf_paths, 1)) >= 1
    /\ Len(DocChunks(pdf_paths, 2)) = 2
    /\ dir["chunks.jsonl"].data[3].chunk_id = make_chunk_id(3)

AllPresent(d) == \A a \in ArtifactSet : d[a].present

\* C3: a build that raised does not leave a directory in which all four
\* artifacts exist while two of them come from different builds or one of
\* them is the leftover of an unfinished write.
C3_NoPartialIndex ==
    bpc \in BuildRaised =>
        ~ /\ AllPresent(dir)
          /\ \/ \E a, b \in ArtifactSet : dir[a].build # dir[b].build
             \/ \E a \in ArtifactSet : ~dir[a].ok

AlignedRows(cs, mat, corpus, meta) ==
    /\ Len(mat) = Len(cs)
    /\ Len(corpus) = Len(cs)
    /\ meta.num_chunks = Len(cs)
    /\ \A i \in DOMAIN cs :
         /\ mat[i].text = TextOf(cs[i])
         /\ corpus[i] = tokenize_for_bm25(TextOf(cs[i]))

\* C4: after a completed build the chunk list, the dense rows and the
\* lexical corpus in out_dir have the length meta.num_chunks and agree
\* position by position on the chunk text, and so do the three in every
\* LoadedIndex load_index returns.
C4_RowAlignment ==
    /\ bpc = "done" =>
         AlignedRows(dir["chunks.jsonl"].data, dir["faiss.index"].data,
                     dir["bm25_tokens.pkl"].data, dir["meta.json"].data)
    /\ lpc = "returned" =>
         AlignedRows(loaded.chunks, loaded.faiss_index, loaded.bm25, loaded.meta)

\* C5: once load_index has been called, the directory is as it was at the
\* call; if an artifact was missing, the call has raised FileNotFoundError
\* naming a path that is missing, having read or constructed nothing; and it
\* returns a LoadedIndex only from a directory that holds all four.
C5_FailFast ==
    lpc # "idle" =>
        /\ dir = loadDir0
        /\ Missing(loadDir0) # {} =>
             /\ lpc = "raised"
             /\ loaded.kind = "FileNotFoundError"
             /\ ~loadDir0[loaded.path].present
             /\ loadWork = <<>>
        /\ lpc = "returned" => Missing(loadDir0) = {}

\* load_index raised on a directory that holds chunks.jsonl and lacks faiss.index
C5_Witness ==
    /\ lpc = "raised"
    /\ loaded.kind = "FileNotFoundError"
    /\ loaded.path = "faiss.index"
    /\ dir["chunks.jsonl"].present

-----------------------------------------------------------------------------
(* Claims about hybrid_retrieve (SpecRetrieve) *)

Zero == Frac(0, 1)
One == Frac(1, 1)

Returned == {results[r].chunk : r \in DOMAIN results}

\* C6: the list returned has at most top_k entries and no chunk ordinal
\* twice; on an index of zero chunks it is empty and neither the query
\* encoder, nor the dense search, nor the lexical scorer was called.
C6_AtMostTopK ==
    rpc = "done" =>
        /\ Len(results) <= top_k
        /\ \A r1, r2 \in DOMAIN results : results[r1].chunk = results[r2].chunk => r1 = r2
        /\ n_docs = 0 => (results = <<>> /\ rcalls = {})

SliceLen(n, k) == IF k >= 0 THEN Min2(k, n) ELSE Max2(n + k, 0)

\* C6 (amended): the list returned has min(top_k, n) entries when
\* top_k >= 0, hence at most top_k, and max(n + top_k, 0) entries when
\* top_k < 0 (the slice then drops the last -top_k of the ranking); no chunk
\* ordinal occurs twice; on an index of zero chunks it is empty and no
\* collaborator was called.
C6_SliceLength ==
    rpc = "done" =>
        /\ Len(results) = SliceLen(n_docs, top_k)
        /\ top_k >= 0 => Len(results) <= top_k
        /\ \A r1, r2 \in DOMAIN results : results[r1].chunk = results[r2].chunk => r1 = r2
        /\ n_docs = 0 => (results = <<>> /\ rcalls = {})

\* a ranking of more chunks than top_k was cut to top_k entries
C6_Witness ==
    /\ rpc = "done" /\ top_k > 0 /\ n_docs > top_k
    /\ Len(results) = top_k
    /\ rcalls # {}

\* C7: ranks are 1..len(result) in list order, hybrid_score does not
\* increase along the list, every returned chunk scores at least as high as
\* every chunk left out, and chunks of equal hybrid_score appear in
\* increasing chunk ordinal.
C7_RankedStable ==
    rpc = "done" =>
        /\ \A r \in DOMAIN results : results[r].rank = r
        /\ \A r1, r2 \in DOMAIN results :
             r1 < r2 => FracLE(results[r2].hybrid_score, results[r1].hybrid_score)
        /\ \A r \in DOMAIN results : \A i \in DOMAIN scored :
             i \notin Returned => FracLE(scored[i].hybrid, results[r].hybrid_score)
        /\ \A r1, r2 \in DOMAIN results :
             (r1 < r2 /\ FracEq(results[r1].hybrid_score, results[r2].hybrid_score))
                => results[r1].chunk < results[r2].chunk

InUnitInterval(x) == FracLE(Zero, x) /\ FracLE(x, One)

\* C8: every returned dense_score and sparse_score lies in [0, 1], whatever
\* the raw scores (negative ones included).
C8_ScoresInUnitInterval ==
    rpc = "done" =>
        \A r \in DOMAIN results :
            /\ InUnitInterval(results[r].dense_score)
            /\ InUnitInterval(results[r].sparse_score)

IsDenseOnly(sc) == FracEq(sc.dense_norm, One) /\ FracEq(sc.sparse_norm, Zero)
IsLexicalOnly(sc) == FracEq(sc.sparse_norm, One) /\ FracEq(sc.dense_norm, Zero)
IsNoMatch(sc) == FracEq(sc.dense_norm, Zero) /\ FracEq(sc.sparse_norm, Zero)

DefaultWeights == dense_weight = Frac(65, 100) /\ sparse_weight = Frac(35, 100)

\* w1 * x1 + w2 * x2 = h, over the rationals
IsWeightedSum(h, w1, x1, w2, x2) ==
    h.n * (w1.d * x1.d * w2.d * x2.d)
        = (w1.n * x1.n * w2.d * x2.d + w2.n * x2.n * w1.d * x1.d) * h.d

\* C9: for every chunk of the corpus, and in every entry returned,
\* hybrid = dense_weight * normalized dense + sparse_weight * normalized
\* sparse; with the weights 0.65 and 0.35 a chunk with neither a dense nor a
\* lexical match scores exactly 0, a dense-only perfect match 0.65, a
\* lexical-only perfect match 0.35, and where a no-match chunk is returned
\* every such perfect match is returned with a smaller rank.
C9_Fusion ==
    rpc = "done" =>
        /\ \A i \in DOMAIN scored :
             IsWeightedSum(scored[i].hybrid, dense_weight, scored[i].dense_norm,
                           sparse_weight, scored[i].sparse_norm)
        /\ \A r \in DOMAIN results :
             /\ IsWeightedSum(results[r].hybrid_score, dense_weight, results[r].dense_score,
                              sparse_weight, results[r].sparse_score)
             /\ results[r].hybrid_score = scored[results[r].chunk].hybrid
        /\ DefaultWeights =>
             /\ \A i \in DOMAIN scored :
                  /\ IsNoMatch(scored[i]) => FracEq(scored[i].hybrid, Zero)
                  /\ IsDenseOnly(scored[i]) => FracEq(scored[i].hybrid, Frac(65, 100))
                  /\ IsLexicalOnly(scored[i]) => FracEq(scored[i].hybrid, Frac(35, 100))
             /\ \A z \in DOMAIN results : \A i \in DOMAIN scored :
                  (IsNoMatch(scored[results[z].chunk])
                     /\ (IsDenseOnly(scored[i]) \/ IsLexicalOnly(scored[i])))
                    => \E r \in DOMAIN results : results[r].chunk = i /\ r < z

\* the scenario of the spec: a lexical-only match, a dense-only match and a
\* chunk with neither, all three returned
C9_Witness ==
    /\ rpc = "done" /\ DefaultWeights
    /\ Len(results) = 3
    /\ IsNoMatch(scored[results[3].chunk])
    /\ \E a, b \in 1..2 :
         IsLexicalOnly(scored[results[a].chunk]) /\ IsDenseOnly(scored[results[b].chunk])

-----------------------------------------------------------------------------
(* Claims about EmbeddingCache.get_many (SpecCache) *)

PairAt(call, i) == [model |-> call.model, text |-> call.texts[i]]

KeyAt(call, i) == sha1_text(call.model \o <<NL>> \o call.texts[i])

\* the texts of the call whose key the cache did not hold when it was made
AbsentTexts(call) ==
    LET RECURSIVE From(_)
        From(i) == IF i > Len(call.texts) THEN <<>>
                   ELSE (IF KeyAt(call, i) \in DOMAIN call.db0 THEN <<>> ELSE <<call.texts[i]>>)
                          \o From(i + 1)
    IN From(1)

\* C10: in every get_many call of a sequence of calls on one cache, the
\* backend is invoked at most once and only with the texts whose key is
\* absent; no (model, text) pair encoded by an earlier call is passed to it
\* again; row i of the result is the vector of text i under the call's model,
\* and it equals the vector stored for that pair the first time.
C10_CacheCorrect ==
    lastCall # <<>> =>
        /\ Len(lastCall.backend) <= 1
        /\ \A b \in DOMAIN lastCall.backend :
             /\ lastCall.backend[b] = AbsentTexts(lastCall)
             /\ Pairs(lastCall.model, lastCall.backend[b]) \cap encodedBefore = {}
        /\ lastCall.kind = "returned" =>
             /\ Len(lastCall.out) = Len(lastCall.texts)
             /\ \A i \in DOMAIN lastCall.texts :
                  /\ lastCall.out[i].model = lastCall.model
                  /\ lastCall.out[i].text = lastCall.texts[i]
                  /\ KeyAt(lastCall, i) \in DOMAIN firstStored
                  /\ lastCall.out[i] = firstStored[KeyAt(lastCall, i)]
                  /\ tolist(lastCall.out[i]) = db[KeyAt(lastCall, i)]

\* a call that mixes a hit on a pair encoded by an earlier call with a miss:
\* the backend ran once, and the two rows were computed at different times
C10_Witness ==
    /\ lastCall # <<>> /\ lastCall.kind = "returned"
    /\ Len(lastCall.backend) = 1
    /\ \E i, j \in DOMAIN lastCall.texts :
         /\ i < j
         /\ PairAt(lastCall, i) \in encodedBefore
         /\ PairAt(lastCall, j) \notin encodedBefore
         /\ lastCall.out[i].noise # lastCall.out[j].noise

-----------------------------------------------------------------------------
(* Claims about build_answer_prompt (SpecPrompt) *)

RECURSIVE SumHeaders(_)
SumHeaders(bs) == IF bs = <<>> THEN 0 ELSE bs[1].header + SumHeaders(Tail(bs))

NoEmptyBody == \A b \in DOMAIN context_blocks : context_blocks[b].text > 0

\* C11: the context section (the emitted blocks and the delimiters between
\* them) is at most the budget plus a header overhead, read here in the
\* widest sense: everything emitted that is not chunk text, i.e. all the
\* headers and all the delimiters; and no emitted block has an empty body.
C11_WithinBudgetPlusHeaders ==
    ppc = "done" =>
        /\ ContextLen(context_blocks)
             <= max_context_chars + SumHeaders(context_blocks)
                  + DelimiterLen * Len(context_blocks)
        /\ NoEmptyBody

\* C11 (amended): the context section is at most the budget plus 349
\* characters, one less than the per-chunk floor of 350, whatever the number
\* of chunks and the lengths of their texts and headers; every block is at
\* most as long as its share max(350, remaining // chunks left); and no
\* emitted block has an empty body.
C11_WithinBudgetPlusFloor ==
    /\ ContextLen(context_blocks) <= Max2(NoContextLen, max_context_chars + PerChunkFloor - 1)
    /\ NoEmptyBody
    /\ \A e \in DOMAIN plog :
         plog[e].what = "emit" =>
            \E b \in DOMAIN context_blocks :
               /\ context_blocks[b].label = plog[e].i
               /\ BlockLen(context_blocks[b])
                    <= per_chunk_budget(plog[e].before, Len(retrieved) - plog[e].i + 1)

\* the scenario of the spec: a budget of 500 and five chunks of 1000
\* characters; two blocks of 350 characters are emitted and the rest dropped
C11_Witness ==
    /\ ppc = "done" /\ max_context_chars = 500
    /\ Len(retrieved) = 5
    /\ \A i \in DOMAIN retrieved : retrieved[i].clean = 1000 /\ retrieved[i].header = 60
    /\ Len(context_blocks) = 2
    /\ ContextLen(context_blocks) = 707

\* the log entries of the chunks that were emitted, in order
EmitEntries == SelectSeq(plog, LAMBDA e : e.what = "emit")

\* what C18 says of skipping, the budget and the order, labels apart
SkipAndCharge ==
    \* a chunk is skipped exactly when its text budget is zero or its cleaned text empty
    /\ \A e \in DOMAIN plog :
         plog[e].what # "break" =>
            (plog[e].what = "skip"
               <=> (plog[e].text_budget <= 0 \/ retrieved[plog[e].i].clean = 0))
    \* a skipped chunk is not in the prompt and leaves the budget as it was
    /\ \A e \in DOMAIN plog :
         plog[e].what = "skip" =>
            /\ \A b \in DOMAIN context_blocks : context_blocks[b].label # plog[e].i
            /\ IF e < Len(plog) THEN plog[e + 1].before = plog[e].before
               ELSE remaining_chars = plog[e].before
    \* and the loop goes on to the next chunk
    /\ \A e \in DOMAIN plog :
         (plog[e].what = "skip" /\ plog[e].i < Len(retrieved) /\ ppc = "done")
            => (e < Len(plog) /\ plog[e + 1].i = plog[e].i + 1)
    \* the emitted blocks keep the order of the retrieved list
    /\ Len(EmitEntries) = Len(context_blocks)
    /\ \A b \in DOMAIN context_blocks :
         /\ context_blocks[b].header = retrieved[EmitEntries[b].i].header
         /\ \A c \in DOMAIN context_blocks : b < c => EmitEntries[b].i < EmitEntries[c].i
    \* each emitted block is charged its length plus the delimiter
    /\ remaining_chars
         = max_context_chars
             - (SumBlocks(context_blocks) + DelimiterLen * Len(context_blocks))
    \* once the budget is <= 0 nothing more is emitted
    /\ \A e \in DOMAIN plog :
         /\ plog[e].what = "emit" => plog[e].before > 0
         /\ plog[e].before <= 0 => (plog[e].what = "break" /\ e = Len(plog))

\* C18: a chunk whose text budget is zero or less, or whose cleaned text is
\* empty, is left out, leaves the budget unchanged and takes no context
\* slot: the emitted blocks are labelled Context 1, 2, ..., m without gaps;
\* the loop goes on; blocks keep the retrieved order; each is charged its
\* length plus the delimiter; once the budget is <= 0 nothing is emitted.
C18_SkipTakesNoSlot ==
    /\ SkipAndCharge
    /\ \A b \in DOMAIN context_blocks : context_blocks[b].label = b

\* C18 (amended): as C18, except that a block is labelled with the 1-based
\* position of its chunk in the retrieved list, so that a skipped chunk
\* leaves a gap in the labels (Context 1, Context 3).
C18_SkipKeepsRankLabel ==
    /\ SkipAndCharge
    /\ \A b \in DOMAIN context_blocks : context_blocks[b].label = EmitEntries[b].i

\* a chunk with text was skipped because its header fills its share, and a
\* later chunk was emitted
C18_Witness ==
    /\ ppc = "done"
    /\ \E e, f \in DOMAIN plog :
         /\ e < f
         /\ plog[e].what = "skip" /\ retrieved[plog[e].i].clean > 0
         /\ plog[f].what = "emit"

-----------------------------------------------------------------------------
(* Claims about OllamaClient (SpecOllama) *)

GenOver == opc \in {"returned", "raised"}

\* C12: a generate call sends at most two generation requests; a second one
\* only after the first response said the model is not found, and to a model
\* other than the one first tried; when the first response is another error,
\* or the retry fails, or there is no fallback model, the call raises and
\* returns nothing; it returns only the response of its last request.
C12_RetryOnce ==
    /\ Len(requests) <= 2
    /\ Len(requests) = 2 =>
         /\ requests[1].resp = "missing_model"
         /\ requests[2].model # requests[1].model
    /\ GenOver =>
         /\ Len(requests) >= 1
         /\ (opc = "returned") <=> (requests[Len(requests)].resp = "ok")
         /\ (opc = "raised") <=> (gen_result.kind = "RuntimeError")
         /\ requests[1].resp \notin {"ok", "missing_model"}
               => (opc = "raised" /\ Len(requests) = 1)
         /\ (requests[1].resp = "missing_model" /\ Len(requests) = 1)
               => (opc = "raised"
                   /\ ~Truthy(select_preferred_model(
                          SelectSeq(list_local_models(cli_models, api_models),
                                    LAMBDA m : m # requests[1].model))))

\* the first request met "model not found", the retry with another model failed
C12_Witness ==
    /\ opc = "raised"
    /\ Len(requests) = 2
    /\ requests[1].resp = "missing_model"
    /\ requests[2].resp = "http_error"
    /\ requests[1].model \in Range(cli_models)

IsPreferred(m) == m \in Range(PREFERRED_MODELS)

Available == Range(list_local_models(cli_models, api_models))

\* the entries of the preference list that are locally available, by rank
AvailableRanks == {k \in DOMAIN PREFERRED_MODELS : PREFERRED_MODELS[k] \in Available}

PrecedenceHead ==
    /\ Truthy(model_override) => (opc = "created" /\ self_model = model_override)
    /\ (~Truthy(model_override) /\ Truthy(env_model))
         => (opc = "created" /\ self_model = env_model)
    /\ (~Truthy(model_override) /\ ~Truthy(env_model) /\ AvailableRanks # {})
         => (opc = "created"
             /\ self_model = PREFERRED_MODELS[SetMin(AvailableRanks)])

\* C13: create resolves the model as the override if given, else the
\* environment value if set, else the highest-preference entry of the
\* preference list that is locally available; the resolved model is always
\* one of these three, and when no preference-list model is available the
\* call raises.
C13_StrictPrecedence ==
    opc \in {"created", "create_raised"} =>
        /\ PrecedenceHead
        /\ opc = "created" =>
             \/ self_model = model_override
             \/ self_model = env_model
             \/ (IsPreferred(self_model) /\ self_model \in Available)
        /\ (~Truthy(model_override) /\ ~Truthy(env_model) /\ AvailableRanks = {})
             => opc = "create_raised"

\* C13 (amended): as C13 down to the preference list; when no entry of the
\* preference list is locally available, the first model of the local list
\* is taken, whatever it is, and the call raises only when no model at all
\* is locally available.  An override or environment value that is the empty
\* string counts as not given.
C13_PrecedenceThenFirstLocal ==
    opc \in {"created", "create_raised"} =>
        /\ PrecedenceHead
        /\ (~Truthy(model_override) /\ ~Truthy(env_model) /\ AvailableRanks = {}
              /\ Available # {})
             => (opc = "created"
                 /\ self_model = list_local_models(cli_models, api_models)[1])
        /\ (opc = "create_raised")
             <=> (~Truthy(model_override) /\ ~Truthy(env_model) /\ Available = {})

\* no override, no environment value, and the local list names the lower
\* preference first: the higher preference is taken
C13_Witness ==
    /\ opc = "created"
    /\ model_override = None /\ env_model = ""
    /\ cli_models = <<>>
    /\ api_models = <<"mistral:7b", "qwen2.5:7b">>
    /\ self_model = "qwen2.5:7b"

-----------------------------------------------------------------------------
(* Claims about run_eval (SpecEval) *)

\* the numbers of the question lines before line n
QuestionsBefore(n) ==
    {l \in DOMAIN eval_lines : l < n /\ eval_lines[l].kind = "question"}

\* C14: run_eval appends one row per question line, in input order, whether
\* or not the generation for it or for an earlier question raised, and writes
\* exactly those rows; the row of a question whose generation raised has an
\* empty answer and answer_contains_keyword = 0, and the retrieval_hit_at_k
\* and retrieved_chunk_ids it would have had with an answer; a failure that
\* is not a generation failure ends the run with no file written.
C14_ErrorIsolation ==
    /\ Len(rows) = Cardinality(QuestionsBefore(line_no))
    /\ Len(gen_log) = Len(rows)
    /\ \A r \in DOMAIN rows :
         LET ln == rows[r].line_no
             q == eval_lines[ln]
             answered == EvalRow(ln, q, q.generated)
         IN /\ ln \in QuestionsBefore(line_no)
            /\ r < Len(rows) => ln < rows[r + 1].line_no
            /\ gen_log[r].line_no = ln
            /\ rows[r].retrieval_hit_at_k = answered.retrieval_hit_at_k
            /\ rows[r].retrieved_chunk_ids = answered.retrieved_chunk_ids
            /\ rows[r].retrieval_hit_at_k
                 = BoolInt(q.blob.has_kw /\ "kw" \in Range(q.expected_keywords))
            /\ IF gen_log[r].raised
               THEN rows[r].answer = EmptyText /\ rows[r].answer_contains_keyword = 0
               ELSE rows[r] = answered
    /\ epc = "written" =>
         /\ out_csv = rows
         /\ Len(out_csv) = Cardinality(QuestionsBefore(Len(eval_lines) + 1))
    /\ epc = "raised" => eval_lines[line_no].kind = "bad_json"
    /\ epc # "written" => out_csv = <<None>>

\* the generation for the first question raised although its answer would
\* have held the keyword; the question after it was answered and both rows
\* were written
C14_Witness ==
    /\ epc = "written"
    /\ Len(out_csv) = 2
    /\ gen_log[1].raised /\ ~gen_log[2].raised
    /\ eval_lines[out_csv[1].line_no].generated.has_kw
    /\ eval_lines[out_csv[1].line_no].expected_keywords = <<"kw">>
    /\ out_csv[1].retrieval_hit_at_k = 1
    /\ out_csv[2].answer_contains_keyword = 1


-----------------------------------------------------------------------------
(* Claims about unit collection (SpecUnits) *)

\* the places of the lines of the document, and their order
Places == {LineText(p, i) : p \in DOMAIN pages, i \in 1..MaxPageLines} \cap
          UNION {{LineText(p, i) : i \in DOMAIN pages[p].lines} : p \in DOMAIN pages}

Before(a, b) == a.page < b.page \/ (a.page = b.page /\ a.line < b.line)

KindAt(a) == pages[a.page].lines[a.line].kind

\* the heading rule, read line by line: an all-caps line, or a title-case
\* line with a blank line right after it on its page
HeadingByRule(a) ==
    \/ KindAt(a) = "caps"
    \/ /\ KindAt(a) = "title"
       /\ a.line + 1 \in DOMAIN pages[a.page].lines
       /\ pages[a.page].lines[a.line + 1].kind = "blank"

\* the heading in force at a place: the last heading-rule line at or before it
SectionAt(a) ==
    LET hs == {h \in Places : HeadingByRule(h) /\ (h = a \/ Before(h, a))}
    IN IF hs = {} THEN <<>>
       ELSE <<CHOOSE h \in hs : \A g \in hs : g = h \/ Before(g, h)>>

\* C15: when unit collection returns, every line that satisfies the heading
\* rule is a unit of its own and lies in no other unit, and every unit carries
\* as section title the last heading-rule line before it in the document
\* (pages included), none if there is none; so a title-case line that ends a
\* page, with no blank line after it, is not a section title.
C15_HeadingsOwnUnits ==
    upc = "done" =>
        /\ \A h \in Places :
              HeadingByRule(h) =>
                 /\ \E k \in DOMAIN collected : collected[k].text = <<h>>
                 /\ \A k \in DOMAIN collected :
                       h \in Range(collected[k].text) => collected[k].text = <<h>>
        /\ \A k \in DOMAIN collected :
              collected[k].section_title = SectionAt(collected[k].text[1])

=============================================================================
